---- MODULE Spec2Model ----
(***************************************************************************)
(* Model of the edge-triggered epoll echo server                           *)
(* src/Socket网络编程/epollet.c, together with the kernel objects it talks   *)
(* to (listen backlog, per-connection socket buffers, the epoll interest   *)
(* list and ready list) and the clients at the other end.                  *)
(*                                                                         *)
(* A connection c sends the byte stream <<c,1>>, <<c,2>>, ... so every     *)
(* byte in the system is distinct and carries its origin and position.     *)
(* BUFFER_SIZE is scaled down from 1024; MAX_EVENTS keeps its value.       *)
(*                                                                         *)
(* Each handler of the event loop is one action. The accept loop is one    *)
(* action for each turn, because accept on the blocking listen_fd can stop *)
(* the program in the middle of the handler. nclose, badclose, echoed,     *)
(* naccept, lastwr, regclose and the field "of" of an event are history    *)
(* variables: the program never reads them.                                *)
(*                                                                         *)
(* The second program is the thread-per-connection server                  *)
(* src/Socket网络编程/select_sever.c: the accepting main thread, one handler *)
(* thread for each connection, the clients array and clients_mutex. It has *)
(* its own variables and its own specification, SelSpec; each program's    *)
(* actions leave the other's variables alone.                              *)
(***************************************************************************)
EXTENDS Integers, Sequences, FiniteSets, TLC

\* ---------------------------------------------------------------- bounds
MaxConns == 3      \* connections made during a run
MaxSend  == 5      \* bytes the clients send during a run, all together
SndBuf   == 1      \* capacity of a connection's kernel send buffer
MaxAccepts == 3    \* connections the select server accepts during a run

\* ------------------------------------------------------- program constants
MAX_EVENTS  == 1024
BUFFER_SIZE == 3   \* 1024 in the source, scaled

Conns == 1..MaxConns

\* Descriptor numbers: 0..2 are stdio, socket() returns 3, epoll_create1() 4,
\* accept() returns the lowest free number above them.
listen_fd == 3
epoll_fd  == listen_fd + 1
ConnFds   == (epoll_fd + 1)..(epoll_fd + MaxConns)

EPOLLIN    == "IN"
EPOLLOUT   == "OUT"
EPOLLRDHUP == "RDHUP"
EPOLLHUP   == "HUP"
EPOLLERR   == "ERR"
EPOLLET    == "ET"

NoReg     == [events |-> {}, data |-> 0]
NoPending == [buf |-> <<>>, sent_len |-> 0]

\* ---- select_sever.c
MAX_CLIENTS == 2   \* 10 in the source, scaled

Slots   == 0..(MAX_CLIENTS - 1)
Threads == 1..MaxAccepts

\* The owner of clients_mutex: 0 when unlocked, a handler thread, or main.
MainThread == MaxAccepts + 1

\* socket() returns 3; accept() returns the lowest free number above it.
server_fd == 3
SelFds    == (server_fd + 1)..(server_fd + MaxAccepts)

VARIABLES
    cst,       \* [Conns -> "new" | "queued" | "open" | "closed"]: not yet made,
               \* in the listen backlog, accepted, handle closed by the server
    peer,      \* [Conns -> "up" | "fin" | "rst"]: the client's end
    nsent,     \* [Conns -> Nat]: bytes the client has sent
    nread,     \* [Conns -> Nat]: bytes the server has read
    out,       \* [Conns -> Seq(byte)]: bytes the server has written
    nrecv,     \* [Conns -> Nat]: bytes of out the client has received
    backlog,   \* Seq(Conns): the listen queue
    fdt,       \* [ConnFds -> Conns \cup {0}]: the server's open descriptors
    reg,       \* [ConnFds -> epoll_event]: the epoll interest list
    rdlist,    \* Seq(fd): the epoll ready list
    event,     \* main's struct epoll_event event
    events,    \* main's events[i..nfds-1], each with the connection it is of
    pc,        \* "wait" (in epoll_wait) | "dispatch" (in the for loop) | "exited"
    pending,   \* [ConnFds -> YourBuffer]: the pending-data table
    nclose,    \* [Conns -> Nat]: close() calls that closed the connection
    badclose,  \* a close() was issued on a descriptor that was not open
    echoed,    \* [Conns -> Seq(byte)]: bytes handed to the echo write loop
    naccept,   \* connections accepted since the last return of epoll_wait
    lastwr,    \* how the last write call made since epoll_wait returned ended:
               \* "none" | "done" | "short" | "again" | "error"
    regclose,  \* a close() was issued on a descriptor still in the interest list
    \* ---- select_sever.c
    clients,        \* [Slots -> fd or -1]: clients[i].fd
    clients_mutex,  \* 0 (unlocked), MainThread, or the handler thread holding it
    new_socket,     \* main's new_socket
    client_fd,      \* [Threads -> fd, -1 or 0]: handle_client's client_fd (0: not set)
    arg,            \* [Threads -> Slots or -1]: the slot handle_client's arg points to
    sfds,           \* [SelFds -> Threads or 0]: the process's open descriptors,
                    \* each with the connection it is of
    mpc,            \* where main is
    tpc,            \* [Threads -> where the connection's handler thread is]
    nconn,          \* connections accepted so far
    ownfd           \* [Threads -> fd or 0]: the descriptor accept returned for the
                    \* connection (history)

epollVars == <<cst, peer, nsent, nread, out, nrecv, backlog, fdt, reg, rdlist,
               event, events, pc, pending, nclose, badclose, echoed, naccept,
               lastwr, regclose>>

selVars == <<clients, clients_mutex, new_socket, client_fd, arg, sfds, mpc,
             tpc, nconn, ownfd>>

vars == <<epollVars, selVars>>

kernelConn == <<cst, peer, nsent, nread, out, nrecv>>

\* ------------------------------------------------------------ the kernel

Min(a, b) == IF a < b THEN a ELSE b

Bytes(c, from, to) == [i \in 1..(to - from + 1) |-> <<c, from + i - 1>>]

RECURSIVE SentUpTo(_, _)
SentUpTo(ns, n) == IF n = 0 THEN 0 ELSE ns[n] + SentUpTo(ns, n - 1)

TotalSent == SentUpTo(nsent, MaxConns)

Avail(c) == nsent[c] - nread[c]

Space(c) == SndBuf - (Len(out[c]) - nrecv[c])

\* tcp_poll: what the socket of connection c reports, given its buffers.
PollMaskOf(c, ns, nr, pr, sp) ==
    (IF ns > nr \/ pr # "up" THEN {EPOLLIN} ELSE {})
    \cup (IF pr # "up" THEN {EPOLLRDHUP} ELSE {})
    \cup (IF sp > 0 THEN {EPOLLOUT} ELSE {})
    \cup (IF pr = "rst" THEN {EPOLLHUP, EPOLLERR} ELSE {})

PollMask(c) == PollMaskOf(c, nsent[c], nread[c], peer[c], Space(c))

\* The conditions epoll reports for an interest mask: those asked for, and
\* always hang-up and error.
Reported(mask, interest) == mask \cap (interest \cup {EPOLLHUP, EPOLLERR})

InList(l, fd) == \E i \in 1..Len(l) : l[i] = fd

Enlist(l, fd) == IF InList(l, fd) THEN l ELSE Append(l, fd)

Delist(l, fd) == SelectSeq(l, LAMBDA x : x # fd)

\* ep_poll_callback: a wake-up on descriptor fd with the given conditions
\* puts it on the ready list when it is registered for one of them.
Wake(l, r, fd, keys) ==
    IF r[fd].events # {} /\ Reported(keys, r[fd].events) # {}
    THEN Enlist(l, fd) ELSE l

FdOf(c) == CHOOSE fd \in ConnFds : fdt[fd] = c

WakeConn(c, keys) ==
    IF cst[c] = "open" THEN Wake(rdlist, reg, FdOf(c), keys) ELSE rdlist

\* ------------------------------------------------------------ the clients

Connect(c) ==
    /\ cst[c] = "new"
    /\ \A d \in Conns : d < c => cst[d] # "new"
    /\ cst' = [cst EXCEPT ![c] = "queued"]
    /\ backlog' = Append(backlog, c)
    /\ rdlist' = Enlist(rdlist, listen_fd)
    /\ UNCHANGED <<peer, nsent, nread, out, nrecv, fdt, reg, event, events,
                   pc, pending, nclose, badclose, echoed,
                   naccept, lastwr, regclose, selVars>>

ClientSend(c) ==
    /\ cst[c] \in {"queued", "open"}
    /\ peer[c] = "up"
    /\ TotalSent < MaxSend
    /\ nsent' = [nsent EXCEPT ![c] = @ + 1]
    /\ rdlist' = WakeConn(c, {EPOLLIN})
    /\ UNCHANGED <<cst, peer, nread, out, nrecv, backlog, fdt, reg, event,
                   events, pc, pending, nclose, badclose, echoed,
                   naccept, lastwr, regclose, selVars>>

ClientRecv(c) ==
    /\ cst[c] = "open"
    /\ peer[c] = "up"
    /\ nrecv[c] < Len(out[c])
    /\ nrecv' = [nrecv EXCEPT ![c] = @ + 1]
    /\ rdlist' = IF Space(c) = 0 THEN WakeConn(c, {EPOLLOUT}) ELSE rdlist
    /\ UNCHANGED <<cst, peer, nsent, nread, out, backlog, fdt, reg, event,
                   events, pc, pending, nclose, badclose, echoed,
                   naccept, lastwr, regclose, selVars>>

ClientClose(c) ==
    /\ cst[c] \in {"queued", "open"}
    /\ peer[c] = "up"
    /\ peer' = [peer EXCEPT ![c] = "fin"]
    /\ rdlist' = WakeConn(c, {EPOLLIN, EPOLLRDHUP})
    /\ UNCHANGED <<cst, nsent, nread, out, nrecv, backlog, fdt, reg, event,
                   events, pc, pending, nclose, badclose, echoed,
                   naccept, lastwr, regclose, selVars>>

ClientReset(c) ==
    /\ cst[c] = "open"
    /\ peer[c] = "up"
    /\ peer' = [peer EXCEPT ![c] = "rst"]
    /\ rdlist' = WakeConn(c, {EPOLLIN, EPOLLRDHUP, EPOLLHUP, EPOLLERR})
    /\ UNCHANGED <<cst, nsent, nread, out, nrecv, backlog, fdt, reg, event,
                   events, pc, pending, nclose, badclose, echoed,
                   naccept, lastwr, regclose, selVars>>

\* ------------------------------------------------------------- the server

\* select_sever.c before its accept loop: every slot is free (lines 88-91).
SelInit ==
    /\ clients = [i \in Slots |-> -1]
    /\ clients_mutex = 0
    /\ new_socket = 0
    /\ client_fd = [t \in Threads |-> 0]
    /\ arg = [t \in Threads |-> -1]
    /\ sfds = [fd \in SelFds |-> 0]
    /\ mpc = "top"
    /\ tpc = [t \in Threads |-> "none"]
    /\ nconn = 0
    /\ ownfd = [t \in Threads |-> 0]

Init ==
    /\ cst = [c \in Conns |-> "new"]
    /\ peer = [c \in Conns |-> "up"]
    /\ nsent = [c \in Conns |-> 0]
    /\ nread = [c \in Conns |-> 0]
    /\ out = [c \in Conns |-> <<>>]
    /\ nrecv = [c \in Conns |-> 0]
    /\ backlog = <<>>
    /\ fdt = [fd \in ConnFds |-> 0]
    /\ reg = [fd \in ConnFds |-> NoReg]
    /\ rdlist = <<>>
    /\ event = [events |-> {EPOLLIN, EPOLLET}, data |-> listen_fd]
    /\ events = <<>>
    /\ pc = "wait"
    /\ pending = [fd \in ConnFds |-> NoPending]
    /\ nclose = [c \in Conns |-> 0]
    /\ badclose = FALSE
    /\ echoed = [c \in Conns |-> <<>>]
    /\ naccept = 0
    /\ lastwr = "none"
    /\ regclose = FALSE
    /\ SelInit

\* What epoll_wait reports for one entry of the ready list (ep_send_events):
\* the conditions that hold now, with the data stored at registration.
Revents(fd) ==
    IF fd = listen_fd
    THEN IF backlog # <<>> THEN {EPOLLIN} ELSE {}
    ELSE IF fdt[fd] = 0 THEN {}
    ELSE Reported(PollMask(fdt[fd]), reg[fd].events)

ReadyEvent(fd) ==
    [events |-> Revents(fd),
     data   |-> IF fd = listen_fd THEN listen_fd ELSE reg[fd].data,
     of     |-> IF fd = listen_fd THEN 0 ELSE fdt[fd]]

Live(l) == SelectSeq(l, LAMBDA fd : Revents(fd) # {})

Harvest(l) ==
    [i \in 1..Min(Len(Live(l)), MAX_EVENTS) |-> ReadyEvent(Live(l)[i])]

\* epoll_wait(epoll_fd, events, MAX_EVENTS, -1): blocks until something is
\* ready; edge-triggered entries leave the ready list when reported.
EpollWait ==
    /\ pc = "wait"
    /\ Harvest(rdlist) # <<>>
    /\ events' = Harvest(rdlist)
    /\ rdlist' = SubSeq(Live(rdlist), MAX_EVENTS + 1, Len(Live(rdlist)))
    /\ pc' = "dispatch"
    /\ naccept' = 0
    /\ lastwr' = "none"
    /\ UNCHANGED <<kernelConn, backlog, fdt, reg, event, pending, nclose,
                   badclose, echoed, regclose, selVars>>

\* events[i], the event being handled.
head == events[1]

\* The for loop moves to events[i+1], or back to epoll_wait after the last.
AfterEvent ==
    /\ events' = Tail(events)
    /\ pc' = IF Len(events) = 1 THEN "wait" ELSE "dispatch"

RdInterest == {EPOLLIN, EPOLLET, EPOLLRDHUP}
WrInterest == {EPOLLOUT, EPOLLET, EPOLLRDHUP}

\* close(fd). Closing the descriptor of an open socket removes it from the
\* epoll set; closing a number that is not open fails with EBADF. The
\* program never calls EPOLL_CTL_DEL: a registered descriptor is still in
\* the interest list when close is called on it.
DoClose(fd) ==
    /\ badclose' = (badclose \/ fdt[fd] = 0)
    /\ regclose' = (regclose \/ (fdt[fd] # 0 /\ reg[fd].events # {}))
    /\ fdt' = [fdt EXCEPT ![fd] = 0]
    /\ reg' = [reg EXCEPT ![fd] = NoReg]
    /\ rdlist' = Delist(rdlist, fd)
    /\ cst' = IF fdt[fd] = 0 THEN cst ELSE [cst EXCEPT ![fdt[fd]] = "closed"]
    /\ nclose' = IF fdt[fd] = 0 THEN nclose
                 ELSE [nclose EXCEPT ![fdt[fd]] = @ + 1]

NoClose == UNCHANGED <<fdt, cst, nclose, badclose, regclose>>

\* ---- 6. the listening socket is readable: the accept loop

LowestFree ==
    CHOOSE fd \in ConnFds :
        fdt[fd] = 0 /\ \A g \in ConnFds : g < fd => fdt[g] # 0

InAccept == pc = "dispatch" /\ head.data = listen_fd

\* The loop written as an if: one accept for each listener event.
AcceptLoopOnce == AfterEvent

\* while ((conn_fd = accept(...)) > 0): after the body, accept is called again.
AcceptLoopBack == UNCHANGED <<events, pc>>

\* One turn of the accept loop with a connection queued. listen_fd is a
\* blocking socket: with the queue empty the accept call does not return.
\* how: "ok", "fcntl" (set_nonblocking fails), "add" (EPOLL_CTL_ADD fails).
AcceptOne(how) ==
    /\ InAccept
    /\ backlog # <<>>
    /\ LET c == Head(backlog)
           conn_fd == LowestFree
           ev == [events |-> RdInterest, data |-> conn_fd]
       IN  /\ backlog' = Tail(backlog)
           /\ IF how = "fcntl"
              THEN /\ pc' = "exited"
                   /\ cst' = [cst EXCEPT ![c] = "open"]
                   /\ fdt' = [fdt EXCEPT ![conn_fd] = c]
                   /\ UNCHANGED <<events, event, reg, rdlist, nclose>>
              ELSE IF how = "add"
              THEN /\ event' = ev
                   /\ cst' = [cst EXCEPT ![c] = "closed"]
                   /\ nclose' = [nclose EXCEPT ![c] = @ + 1]
                   /\ AcceptLoopBack
                   /\ UNCHANGED <<fdt, reg, rdlist>>
              ELSE /\ event' = ev
                   /\ cst' = [cst EXCEPT ![c] = "open"]
                   /\ fdt' = [fdt EXCEPT ![conn_fd] = c]
                   /\ reg' = [reg EXCEPT ![conn_fd] = ev]
                   /\ rdlist' = IF Reported(PollMask(c), RdInterest) # {}
                                THEN Enlist(rdlist, conn_fd) ELSE rdlist
                   /\ AcceptLoopBack
                   /\ UNCHANGED nclose
    /\ naccept' = naccept + 1
    /\ UNCHANGED <<peer, nsent, nread, out, nrecv, pending, badclose, echoed,
                   lastwr, regclose, selVars>>

\* accept returns -1 with an errno other than EAGAIN (ENOMEM, ENOBUFS,
\* EMFILE...): perror, and the loop is over; the queue keeps the connection.
AcceptFail ==
    /\ InAccept
    /\ backlog # <<>>
    /\ AfterEvent
    /\ UNCHANGED <<kernelConn, backlog, fdt, reg, rdlist, event, pending,
                   nclose, badclose, echoed, naccept, lastwr, regclose,
                   selVars>>

\* ---- 7.1 EPOLLRDHUP | EPOLLHUP

HandleHup ==
    /\ pc = "dispatch"
    /\ head.data # listen_fd
    /\ head.events \cap {EPOLLRDHUP, EPOLLHUP} # {}
    /\ DoClose(head.data)
    /\ AfterEvent
    /\ UNCHANGED <<peer, nsent, nread, out, nrecv, backlog, event, pending,
                   echoed, naccept, lastwr, selVars>>

\* ---- 7.2 EPOLLIN

\* The read loop with the zero-length read taken for a would-block (the test
\* n > 0 followed by the errno test, without the n == 0 branch).
ReadLoopNoEof(avail, pr) ==
    IF pr = "rst" THEN [total_read |-> 0, end |-> "error"]
    ELSE IF avail >= BUFFER_SIZE THEN [total_read |-> BUFFER_SIZE, end |-> "full"]
    ELSE [total_read |-> avail, end |-> "again"]

\* The read loop on a socket holding avail unread bytes whose peer is pr:
\* how many bytes it accumulates and how it ends.
ReadLoop(avail, pr) ==
    IF pr = "rst" THEN [total_read |-> 0, end |-> "error"]
    ELSE IF avail >= BUFFER_SIZE THEN [total_read |-> BUFFER_SIZE, end |-> "full"]
    ELSE IF pr = "fin" THEN [total_read |-> avail, end |-> "eof"]
    ELSE [total_read |-> avail, end |-> "again"]

\* The echo write loop for len bytes into a send buffer with space free;
\* hard: the connection is reset under it.
WriteLoop(len, space, hard) ==
    IF hard THEN [total_sent |-> 0, end |-> "error"]
    ELSE IF space >= len THEN [total_sent |-> len, end |-> "done"]
    ELSE [total_sent |-> space, end |-> "again"]

\* The pending-data table. The source calls get_pending_data and
\* free_pending_data but the repository defines neither, nor YourBuffer, and
\* the would-block branch hands no data over (buffer is a local array). The
\* table is taken from the specification: a record for each descriptor,
\* empty when nothing is owed, holding the chunk and the count already sent
\* from the moment a write would block and the descriptor is switched to
\* EPOLLOUT.
get_pending_data(fd) == pending[fd]

free_pending_data(fd) == [pending EXCEPT ![fd] = NoPending]

StorePending(fd, buf, sent) ==
    [pending EXCEPT ![fd] = [buf |-> buf, sent_len |-> sent]]

\* epoll_ctl(EPOLL_CTL_MOD) on an open descriptor: the registration is
\* replaced, and the descriptor is queued if it is ready under the new mask.
ModReady(l, fd, ev, mask) ==
    IF Reported(mask, ev.events) # {} THEN Enlist(l, fd) ELSE l

HandleRead ==
    /\ pc = "dispatch"
    /\ head.data # listen_fd
    /\ head.events \cap {EPOLLRDHUP, EPOLLHUP} = {}
    /\ EPOLLIN \in head.events
    /\ LET fd == head.data
           c  == fdt[fd]
       IN  IF c = 0
           THEN \* read fails with EBADF: perror, close(fd)
                /\ DoClose(fd)
                /\ UNCHANGED <<peer, nread, out, event, pending, echoed,
                               lastwr>>
           ELSE
           LET r   == ReadLoop(Avail(c), peer[c])
               buf == Bytes(c, nread[c] + 1, nread[c] + r.total_read)
           IN  /\ nread' = [nread EXCEPT ![c] = @ + r.total_read]
               /\ IF r.end \in {"eof", "error"}
                  THEN /\ DoClose(fd)
                       /\ UNCHANGED <<peer, out, event, pending, echoed,
                                      lastwr>>
                  ELSE IF r.end = "full" \/ r.total_read = 0
                  THEN /\ NoClose
                       /\ UNCHANGED <<peer, out, event, pending, echoed, reg,
                                      rdlist, lastwr>>
                  ELSE \E hard \in BOOLEAN, modok \in BOOLEAN :
                       LET w  == WriteLoop(r.total_read, Space(c), hard)
                           ev == [events |-> WrInterest, data |-> fd]
                       IN  /\ echoed' = [echoed EXCEPT ![c] = @ \o buf]
                           /\ lastwr' = w.end
                           /\ out' = [out EXCEPT
                                        ![c] = @ \o SubSeq(buf, 1, w.total_sent)]
                           /\ IF w.end = "done"
                              THEN /\ NoClose
                                   /\ UNCHANGED <<peer, event, pending, reg,
                                                  rdlist>>
                              ELSE IF w.end = "error"
                              THEN /\ peer' = [peer EXCEPT ![c] = "rst"]
                                   /\ DoClose(fd)
                                   /\ UNCHANGED <<event, pending>>
                              ELSE /\ event' = ev
                                   /\ UNCHANGED peer
                                   /\ IF modok
                                      THEN /\ reg' = [reg EXCEPT ![fd] = ev]
                                           /\ rdlist' = ModReady(rdlist, fd, ev,
                                                PollMaskOf(c, nsent[c], nread'[c],
                                                           peer[c], 0))
                                           /\ pending' = StorePending(fd, buf,
                                                            w.total_sent)
                                           /\ NoClose
                                      ELSE /\ DoClose(fd)
                                           /\ UNCHANGED pending
    /\ AfterEvent
    /\ UNCHANGED <<nsent, nrecv, backlog, naccept, selVars>>

\* ---- 7.3 EPOLLOUT

\* One write of rem bytes into a send buffer with space free.
WriteOnce(rem, space, pr) ==
    IF pr = "rst" THEN [sent |-> -1, errno |-> "EPIPE"]
    ELSE IF rem = 0 THEN [sent |-> 0, errno |-> "none"]
    ELSE IF space = 0 THEN [sent |-> -1, errno |-> "EAGAIN"]
    ELSE [sent |-> Min(rem, space), errno |-> "none"]

HandleWrite ==
    /\ pc = "dispatch"
    /\ head.data # listen_fd
    /\ head.events \cap {EPOLLRDHUP, EPOLLHUP} = {}
    /\ EPOLLIN \notin head.events
    /\ EPOLLOUT \in head.events
    /\ LET fd == head.data
           c  == fdt[fd]
           pending_data == get_pending_data(fd)
       IN  IF c = 0
           THEN \* write fails with EBADF: close(fd); free_pending_data(fd)
                /\ DoClose(fd)
                /\ pending' = free_pending_data(fd)
                /\ lastwr' = "error"
                /\ UNCHANGED <<out, event>>
           ELSE
           LET total_len == Len(pending_data.buf)
               w == WriteOnce(total_len - pending_data.sent_len, Space(c),
                              peer[c])
               sent_len == pending_data.sent_len + w.sent
               ev == [event EXCEPT !.events = RdInterest]
           IN  IF w.sent > 0
               THEN /\ out' = [out EXCEPT ![c] = @ \o
                          SubSeq(pending_data.buf, pending_data.sent_len + 1,
                                 sent_len)]
                    /\ NoClose
                    /\ lastwr' = IF sent_len = total_len THEN "done" ELSE "short"
                    /\ IF sent_len = total_len
                       THEN /\ pending' = free_pending_data(fd)
                            /\ event' = ev
                            /\ \E modok \in BOOLEAN :
                                 IF modok
                                 THEN /\ reg' = [reg EXCEPT ![fd] = ev]
                                      /\ rdlist' = ModReady(rdlist, fd, ev,
                                            PollMask(c))
                                 ELSE UNCHANGED <<reg, rdlist>>
                       ELSE /\ pending' = [pending EXCEPT
                                             ![fd].sent_len = sent_len]
                            /\ UNCHANGED <<event, reg, rdlist>>
               ELSE IF w.sent = -1 /\ w.errno # "EAGAIN"
               THEN /\ DoClose(fd)
                    /\ pending' = free_pending_data(fd)
                    /\ lastwr' = "error"
                    /\ UNCHANGED <<out, event>>
               ELSE /\ NoClose
                    /\ lastwr' = IF w.sent = -1 THEN "again" ELSE "done"
                    /\ UNCHANGED <<out, event, pending, reg, rdlist>>
    /\ AfterEvent
    /\ UNCHANGED <<peer, nsent, nread, nrecv, backlog, echoed, naccept,
                   selVars>>

Running == pc # "exited"

Next ==
    \/ \E c \in Conns : Running /\ Connect(c)
    \/ \E c \in Conns : Running /\ ClientSend(c)
    \/ \E c \in Conns : Running /\ ClientRecv(c)
    \/ \E c \in Conns : Running /\ ClientClose(c)
    \/ \E c \in Conns : Running /\ ClientReset(c)
    \/ EpollWait
    \/ \E how \in {"ok", "fcntl", "add"} : AcceptOne(how)
    \/ AcceptFail
    \/ HandleHup
    \/ HandleRead
    \/ HandleWrite

Spec == Init /\ [][Next]_vars

\* The server is one sequential program: it takes its next step whenever one
\* is possible. A client whose connection is up keeps receiving.
ServerNext ==
    \/ EpollWait
    \/ \E how \in {"ok", "fcntl", "add"} : AcceptOne(how)
    \/ AcceptFail
    \/ HandleHup
    \/ HandleRead
    \/ HandleWrite

FairSpec ==
    /\ Spec
    /\ WF_vars(ServerNext)
    /\ \A c \in Conns : WF_vars(Running /\ ClientRecv(c))

\* ====================================================== select_sever.c

\* The first slot holding value v, or -1: the for loops over clients[].
FirstSlot(v) ==
    IF \E i \in Slots : clients[i] = v
    THEN CHOOSE i \in Slots : clients[i] = v /\ \A j \in Slots : j < i => clients[j] # v
    ELSE -1

LowestFreeSel ==
    CHOOSE fd \in SelFds : sfds[fd] = 0 /\ \A g \in SelFds : g < fd => sfds[g] # 0

\* close(fd) in the select server: frees the number when it is open.
SelClose(fd) ==
    IF fd \in SelFds THEN [sfds EXCEPT ![fd] = 0] ELSE sfds

\* ---- main

\* Lines 135-147: main locks the registry to build read_fds, and unlocks.
MainScanLock ==
    /\ mpc = "top"
    /\ clients_mutex = 0
    /\ clients_mutex' = MainThread
    /\ mpc' = "scan"
    /\ UNCHANGED <<clients, new_socket, client_fd, arg, sfds, tpc, nconn, ownfd,
                   epollVars>>

MainScanUnlock ==
    /\ mpc = "scan"
    /\ clients_mutex' = 0
    /\ mpc' = "select"
    /\ UNCHANGED <<clients, new_socket, client_fd, arg, sfds, tpc, nconn, ownfd,
                   epollVars>>

\* Lines 151-170: select times out, reports only client descriptors, or
\* accept fails: back to the top of the loop.
MainNoAccept ==
    /\ mpc = "select"
    /\ mpc' = "top"
    /\ UNCHANGED <<clients, clients_mutex, new_socket, client_fd, arg, sfds,
                   tpc, nconn, ownfd, epollVars>>

\* Line 166: accept returns a new connection on the lowest free descriptor.
MainAccept ==
    /\ mpc = "select"
    /\ nconn < MaxAccepts
    /\ new_socket' = LowestFreeSel
    /\ sfds' = [sfds EXCEPT ![LowestFreeSel] = nconn + 1]
    /\ ownfd' = [ownfd EXCEPT ![nconn + 1] = LowestFreeSel]
    /\ nconn' = nconn + 1
    /\ mpc' = "accepted"
    /\ UNCHANGED <<clients, clients_mutex, client_fd, arg, tpc, epollVars>>

\* Line 175.
MainAddLock ==
    /\ mpc = "accepted"
    /\ clients_mutex = 0
    /\ clients_mutex' = MainThread
    /\ mpc' = "adding"
    /\ UNCHANGED <<clients, new_socket, client_fd, arg, sfds, tpc, nconn, ownfd,
                   epollVars>>

\* Lines 176-195: the first free slot gets new_socket and a handler thread
\* whose arg is the address of that slot's fd; created: pthread_create
\* succeeds. Then the unlock. added is 0 when no slot is free or the thread
\* was not created.
MainAdd(created) ==
    /\ mpc = "adding"
    /\ LET i == FirstSlot(-1)
           t == nconn
       IN  IF i # -1 /\ created
           THEN /\ clients' = [clients EXCEPT ![i] = new_socket]
                /\ arg' = [arg EXCEPT ![t] = i]
                /\ tpc' = [tpc EXCEPT ![t] = "start"]
                /\ mpc' = "top"
                /\ UNCHANGED sfds
           ELSE /\ sfds' = IF i # -1 THEN SelClose(new_socket) ELSE sfds
                /\ tpc' = [tpc EXCEPT ![t] = "dropped"]
                /\ mpc' = "reject"
                /\ UNCHANGED <<clients, arg>>
    /\ clients_mutex' = 0
    /\ UNCHANGED <<new_socket, client_fd, nconn, ownfd, epollVars>>

\* Lines 197-201: if (!added) close(new_socket).
MainReject ==
    /\ mpc = "reject"
    /\ sfds' = SelClose(new_socket)
    /\ mpc' = "top"
    /\ UNCHANGED <<clients, clients_mutex, new_socket, client_fd, arg, tpc,
                   nconn, ownfd, epollVars>>

\* ---- handle_client

\* Line 25: int client_fd = *(int *)arg, read without the mutex.
HandlerStart(t) ==
    /\ tpc[t] = "start"
    /\ client_fd' = [client_fd EXCEPT ![t] = clients[arg[t]]]
    /\ tpc' = [tpc EXCEPT ![t] = "loop"]
    /\ UNCHANGED <<clients, clients_mutex, new_socket, arg, sfds, mpc, nconn,
                   ownfd, epollVars>>

\* Lines 28-65: the loop ends (the client disconnected, or select failed) and
\* the handler closes client_fd. A handler that read -1 may also stay in the
\* loop for ever: select(0, ...) only times out.
HandlerClose(t) ==
    /\ tpc[t] = "loop"
    /\ sfds' = SelClose(client_fd[t])
    /\ tpc' = [tpc EXCEPT ![t] = "closed"]
    /\ UNCHANGED <<clients, clients_mutex, new_socket, client_fd, arg, mpc,
                   nconn, ownfd, epollVars>>

\* Line 66.
HandlerLock(t) ==
    /\ tpc[t] = "closed"
    /\ clients_mutex = 0
    /\ clients_mutex' = t
    /\ tpc' = [tpc EXCEPT ![t] = "locked"]
    /\ UNCHANGED <<clients, new_socket, client_fd, arg, sfds, mpc, nconn, ownfd,
                   epollVars>>

\* Lines 67-77: the first slot whose fd equals client_fd is set to -1; unlock.
HandlerCleanup(t) ==
    /\ tpc[t] = "locked"
    /\ clients' = IF FirstSlot(client_fd[t]) # -1
                  THEN [clients EXCEPT ![FirstSlot(client_fd[t])] = -1]
                  ELSE clients
    /\ clients_mutex' = 0
    /\ tpc' = [tpc EXCEPT ![t] = "done"]
    /\ UNCHANGED <<new_socket, client_fd, arg, sfds, mpc, nconn, ownfd,
                   epollVars>>

SelNext ==
    \/ MainScanLock
    \/ MainScanUnlock
    \/ MainNoAccept
    \/ MainAccept
    \/ MainAddLock
    \/ \E created \in BOOLEAN : MainAdd(created)
    \/ MainReject
    \/ \E t \in Threads : HandlerStart(t)
    \/ \E t \in Threads : HandlerClose(t)
    \/ \E t \in Threads : HandlerLock(t)
    \/ \E t \in Threads : HandlerCleanup(t)

SelSpec == Init /\ [][SelNext]_vars

\* ================================================================ claims

IsOpen(c) == cst[c] = "open"

Healthy(c) == IsOpen(c) /\ peer[c] = "up"

\* The part of a pending record not yet written.
Unsent(pd) == SubSeq(pd.buf, pd.sent_len + 1, Len(pd.buf))

Draining(fd) == fdt[fd] # 0 /\ EPOLLOUT \in reg[fd].events

\* C1 (echo correctness): on an open connection whose client sent at most
\* BUFFER_SIZE bytes and whose echo writes all fit the send buffer (so none
\* blocked), the bytes written back are exactly the bytes read, in order.
C1_EchoCorrectness ==
    \A c \in Conns :
        (Healthy(c) /\ nsent[c] <= BUFFER_SIZE /\ Len(echoed[c]) <= SndBuf)
            => out[c] = Bytes(c, 1, nread[c])

\* C2 (drain completeness): once a connection is draining, then unless its
\* peer closes, the connection ends or the server process exits, the client
\* eventually has received every byte handed to the echo, each once and in
\* order.
C2_DrainComplete ==
    \A c \in Conns :
        [](  (IsOpen(c) /\ Draining(FdOf(c)))
             => <>(\/ ~Healthy(c)
                   \/ ~Running
                   \/ /\ out[c] = echoed[c]
                      /\ nrecv[c] = Len(out[c])) )

Registered(fd) == reg[fd].events # {}

\* C3 (accept drain): the handling of a listener event never ends with a
\* successful accept while connections are still queued (it ends only when
\* an accept fails), and every connection it accepted is registered under
\* its own descriptor.
C3_AcceptDrain ==
    /\ [](Running =>
            \A fd \in ConnFds : fdt[fd] # 0 => Registered(fd))
    /\ [][ (InAccept /\ ~InAccept' /\ Running' /\ backlog' # backlog)
              => backlog' = <<>> ]_vars

\* C3 witness: one listener event has had two connections accepted and
\* registered, and the queue is drained.
C3_Witness ==
    /\ InAccept
    /\ naccept >= 2
    /\ backlog = <<>>
    /\ Cardinality({fd \in ConnFds : fdt[fd] # 0 /\ Registered(fd)}) >= 2

\* C4 (blocking confined to wait): the server is never stopped inside the
\* accept loop, with the backlog empty, while a registered connection has a
\* readiness event pending.
C4_NoBlockingInHandler ==
    ~(/\ InAccept
      /\ backlog = <<>>
      /\ \E fd \in ConnFds : InList(rdlist, fd) /\ Revents(fd) # {})

\* C5 (exactly-once teardown): no connection's handle is closed twice and
\* close is never issued on a descriptor the server has already closed.
C5_ExactlyOnceTeardown ==
    /\ ~badclose
    /\ \A c \in Conns : nclose[c] <= 1

\* C6 (pendingOutput iff Writable): between handler invocations every open
\* connection is registered for {Writable, PeerClosed} when it has unsent
\* bytes stored and for {Readable, PeerClosed} when it has none.
C6_PendingIffWritable ==
    Running =>
        \A fd \in ConnFds :
            fdt[fd] # 0 =>
                reg[fd].events = IF Unsent(pending[fd]) # <<>>
                                 THEN WrInterest ELSE RdInterest

\* The server handles the event at the head of the batch in this step.
Handles == pc = "dispatch" /\ events # <<>> /\ events' = Tail(events)

\* C7 (no busy loop): a Writable event that sends the last unsent byte of a
\* connection clears its pendingOutput and leaves it registered for
\* {Readable, PeerClosed} under its own identity, with no event to report
\* for it unless input or a peer close is there to be read.
C7_NoBusyLoop ==
    [][ \A fd \in ConnFds :
          ( /\ Handles
            /\ head.data = fd
            /\ head.events \cap {EPOLLRDHUP, EPOLLHUP, EPOLLIN} = {}
            /\ EPOLLOUT \in head.events
            /\ fdt[fd] # 0 /\ fdt'[fd] # 0
            /\ Unsent(pending[fd]) # <<>>
            /\ Unsent(pending'[fd]) = <<>> )
          => /\ pending'[fd] = NoPending
             /\ reg'[fd] = [events |-> RdInterest, data |-> fd]
             /\ (Avail(fdt[fd]) = 0 /\ peer[fdt[fd]] = "up")
                    => ~(InList(rdlist, fd) /\ Revents(fd) # {})' ]_vars

\* C8 (per-connection failures are not fatal): the server process never
\* terminates once it is in the event loop.
C8_ServerKeepsRunning == Running

\* C9 (buffer-full policy): one Readable round never accumulates more than
\* BUFFER_SIZE bytes, and a round that fills the buffer on a connection that
\* stays open hands those BUFFER_SIZE bytes to the echo write.
C9_BufferFullEchoed ==
    [][ \A c \in Conns :
          /\ nread'[c] - nread[c] <= BUFFER_SIZE
          /\ (nread'[c] - nread[c] = BUFFER_SIZE /\ IsOpen(c)')
                => echoed'[c] = echoed[c] \o Bytes(c, nread[c] + 1, nread'[c])
      ]_vars

\* C10 (close while draining): when a peer-close or hang-up event is handled
\* for a connection with unsent bytes stored, the server keeps running,
\* writes nothing more, closes the handle and discards the stored bytes.
C10_CloseWhileDraining ==
    [][ \A fd \in ConnFds :
          ( /\ Handles
            /\ head.data = fd
            /\ head.events \cap {EPOLLRDHUP, EPOLLHUP} # {}
            /\ fdt[fd] # 0
            /\ Unsent(pending[fd]) # <<>> )
          => /\ Running'
             /\ out' = out
             /\ fdt'[fd] = 0
             /\ pending'[fd] = NoPending ]_vars

\* C11 (teardown removes the record): no pendingOutput record exists for a
\* descriptor number that is closed, so a connection that later gets the
\* number starts with an empty record.
C11_TeardownRemovesRecord ==
    \A fd \in ConnFds : fdt[fd] = 0 => pending[fd] = NoPending

\* C12 (failure containment): the handling of an event that fired for one
\* connection leaves every other connection as it was: its handle open or
\* closed, the bytes read from it and written to it, its registration and
\* its pendingOutput record.
C12_FailureContainment ==
    [][ (Handles /\ head.data # listen_fd) =>
          \A c \in Conns :
              c # head.of =>
                  /\ cst'[c] = cst[c]
                  /\ nread'[c] = nread[c]
                  /\ out'[c] = out[c]
                  /\ \A fd \in ConnFds :
                        fdt[fd] = c => /\ reg'[fd] = reg[fd]
                                       /\ pending'[fd] = pending[fd] ]_vars

\* C13 (registered identity): every registration in the interest list holds
\* as its identity the descriptor it is registered for.
C13_RegisteredIdentity ==
    \A fd \in ConnFds : Registered(fd) => reg[fd].data = fd

\* C14 (drain to exhaustion on read): when the Readable handler returns and
\* leaves the connection open and registered for {Readable, PeerClosed}, no
\* byte the client has sent is left unread in the socket.
C14_ReadToExhaustion ==
    [][ \A fd \in ConnFds :
          ( /\ Handles
            /\ head.data = fd
            /\ head.events \cap {EPOLLRDHUP, EPOLLHUP} = {}
            /\ EPOLLIN \in head.events
            /\ fdt[fd] # 0
            /\ fdt'[fd] = fdt[fd]
            /\ reg'[fd].events = RdInterest )
          => nread'[fdt[fd]] = nsent'[fdt[fd]] ]_vars

\* C15 (writable handling drains to exhaustion): a Writable round on a
\* connection with unsent bytes stored returns with bytes still unsent only
\* after a write that would block, and the cursor moves by exactly the bytes
\* the round wrote.
C15_WriteToExhaustion ==
    [][ \A fd \in ConnFds :
          ( /\ Handles
            /\ head.data = fd
            /\ head.events \cap {EPOLLRDHUP, EPOLLHUP, EPOLLIN} = {}
            /\ EPOLLOUT \in head.events
            /\ fdt[fd] # 0 /\ fdt'[fd] # 0
            /\ Unsent(pending[fd]) # <<>> )
          => /\ Unsent(pending'[fd]) # <<>> => lastwr' = "again"
             /\ Len(out'[fdt[fd]]) - Len(out[fdt[fd]])
                  = Len(Unsent(pending[fd])) - Len(Unsent(pending'[fd])) ]_vars

\* C16 (peer close with buffered input): when a peer-close event is handled
\* for a connection, the connection does not stay open; and when the event
\* also reports Readable and bytes the peer sent are still unread, they are
\* read and handed to the echo write in that handling.
C16_PeerCloseFlushes ==
    [][ \A fd \in ConnFds :
          ( /\ Handles
            /\ head.data = fd
            /\ EPOLLRDHUP \in head.events
            /\ fdt[fd] # 0
            /\ fdt[fd] = head.of )
          => /\ cst'[fdt[fd]] = "closed"
             /\ (EPOLLIN \in head.events /\ EPOLLHUP \notin head.events
                 /\ Avail(fdt[fd]) > 0)
                  => /\ nread'[fdt[fd]] > nread[fdt[fd]]
                     /\ echoed'[fdt[fd]] # echoed[fdt[fd]] ]_vars

\* C17 (unregister before close): close is never called on a handle that is
\* still registered with the multiplexer.
C17_UnregisterBeforeClose == ~regclose

\* C18 (accept-failure policy): the handling of a listener event ends only
\* when no connection is left queued; an accept that fails while connections
\* are queued does not end it.
C18_AcceptFailureContinues ==
    [][ (InAccept /\ ~InAccept' /\ Running') => backlog = <<>> ]_vars

\* C19 (registration of accepted connections): a turn of the accept loop
\* that takes a connection from the queue either registers it for
\* {Readable, PeerClosed}, edge-triggered, under its own descriptor, or
\* closes it and registers nothing; either way the loop then calls accept
\* again.
C19_AcceptedRegistered ==
    [][ (InAccept /\ backlog # <<>> /\ backlog' = Tail(backlog)) =>
          /\ InAccept'
          /\ \/ /\ fdt'[LowestFree] = Head(backlog)
                /\ reg'[LowestFree] = [events |-> RdInterest,
                                       data |-> LowestFree]
             \/ /\ cst'[Head(backlog)] = "closed"
                /\ fdt'[LowestFree] = 0
                /\ reg'[LowestFree] = NoReg ]_vars

\* C20 (zero-length read closes and discards): a Readable round in which a
\* read returns zero length (the peer has closed and fewer than BUFFER_SIZE
\* bytes are left to read) consumes those bytes, closes the connection in
\* that same handling, hands nothing to the echo and writes nothing; and
\* nothing is ever written to a connection once it is closed.
C20_ZeroReadCloses ==
    /\ [][ \A fd \in ConnFds :
             ( /\ Handles
               /\ head.data = fd
               /\ head.events \cap {EPOLLRDHUP, EPOLLHUP} = {}
               /\ EPOLLIN \in head.events
               /\ fdt[fd] # 0
               /\ peer[fdt[fd]] = "fin"
               /\ Avail(fdt[fd]) < BUFFER_SIZE )
             => /\ fdt'[fd] = 0
                /\ cst'[fdt[fd]] = "closed"
                /\ nread'[fdt[fd]] = nsent[fdt[fd]]
                /\ echoed'[fdt[fd]] = echoed[fdt[fd]]
                /\ out' = out ]_vars
    /\ [][ \A c \in Conns : cst[c] = "closed" => out'[c] = out[c] ]_vars

\* C20 witness: a connection whose peer closed is closed with bytes read
\* from it that were never handed to the echo, fewer than a full buffer: a
\* round accumulated them and then read zero length.
C20_Witness ==
    \E c \in Conns :
        /\ cst[c] = "closed"
        /\ peer[c] = "fin"
        /\ nclose[c] = 1
        /\ (nread[c] - Len(echoed[c])) % BUFFER_SIZE # 0

\* The connection on descriptor fd owes output: bytes it sent are stored for
\* it and not yet written back.
Owes(fd) ==
    /\ fdt[fd] # 0
    /\ Unsent(pending[fd]) # <<>>
    /\ Unsent(pending[fd])[1][1] = fdt[fd]

\* C21 (no input while owing output): while a connection owes output it is
\* registered for {Writable, PeerClosed} without Readable, the bytes stored
\* for it are at most BUFFER_SIZE, and no Readable round runs on it: nothing
\* is read from it.
C21_NoInputWhileOwing ==
    /\ [](Running =>
            \A fd \in ConnFds :
                Owes(fd) => /\ reg[fd].events = WrInterest
                            /\ Len(pending[fd].buf) <= BUFFER_SIZE)
    /\ [][ \A fd \in ConnFds :
             Owes(fd) =>
                /\ ~( /\ Handles
                      /\ head.data = fd
                      /\ head.events \cap {EPOLLRDHUP, EPOLLHUP} = {}
                      /\ EPOLLIN \in head.events )
                /\ fdt'[fd] = fdt[fd] => nread'[fdt[fd]] = nread[fdt[fd]] ]_vars

\* The handler thread of connection t exists and has not finished.
HandlerLive(t) == tpc[t] \in {"start", "loop", "closed", "locked"}

\* C22 (slot ownership under interleaving): a handler thread that exits
\* changes no slot but the one assigned to its connection; every slot with
\* fd # -1 is the slot of a live handler thread; every handler thread has
\* read the descriptor of its own connection; and every write to clients
\* happens with clients_mutex held.
C22_SlotOwnership ==
    /\ [](\A i \in Slots :
            clients[i] # -1 => \E t \in Threads : HandlerLive(t) /\ arg[t] = i)
    /\ [](\A t \in Threads :
            client_fd[t] # 0 => client_fd[t] = ownfd[t])
    /\ [][ \A t \in Threads, i \in Slots :
             (tpc[t] = "locked" /\ tpc'[t] = "done" /\ clients'[i] # clients[i])
                => i = arg[t] ]_vars
    /\ [][ clients' # clients => clients_mutex # 0 ]_vars
====
